---------------------------- MODULE Spec2Model ----------------------------
(***************************************************************************)
(* A model of the drawing-area geometry of the plot package: the drawArea  *)
(* mapping, crop, squishX / squishY, the polyline clipper behind           *)
(* strokeClippedLine, drawGlyph, and palette.Reverse.                      *)
(*                                                                         *)
(* vg.Length and float64 values are modelled as exact extended rationals:  *)
(* a pair <<n, d>> with d >= 0 in lowest terms.  d > 0 is the finite       *)
(* value n/d; <<1,0>> is +Inf, <<-1,0>> is -Inf and <<0,0>> is NaN, the    *)
(* values IEEE-754 division by zero produces.  Rounding is not modelled.   *)
(***************************************************************************)
EXTENDS Integers, Sequences, FiniteSets, TLC

VARIABLES
    da,       \* the receiver drawArea's rect: [min |-> point, size |-> point]
    boxes,    \* the []glyphBox argument of squishX / squishY
    op,       \* the operation that ran last ("init" before any)
    ret,      \* the rect of the drawArea the operation returned
    pts,      \* the []point argument of strokeClippedLine
    runs,     \* the point lists strokeClippedLine handed to strokeLine, in order
    sty,      \* the GlyphStyle argument of drawGlyph: [Shape, Radius]
    pt,       \* the point argument of drawGlyph
    canvas,   \* the commands issued to the vg.Canvas, in order
    panicked, \* the panic that aborted the call ("none" if it returned)
    wrapped,  \* the colors of the wrapped ColorMap's Palette(colors)
    result,   \* the colors of the Palette returned by Reverse.Palette
    axis,     \* the Axis an axis operation is called on, and how it was built
    extent    \* the vg.Length returned by the axis's size()

vars == <<da, boxes, op, ret, pts, runs, sty, pt, canvas, panicked, wrapped, result, axis, extent>>

----------------------------------------------------------------------------
(* vg.Length / float64 arithmetic *)

Abs(n) == IF n < 0 THEN -n ELSE n

Sign(n) == IF n < 0 THEN -1 ELSE IF n > 0 THEN 1 ELSE 0

RECURSIVE GCD(_, _)
GCD(a, b) == IF b = 0 THEN a ELSE GCD(b, a % b)

\* the value n/d in canonical form
Norm(n, d) ==
    IF d = 0 THEN <<Sign(n), 0>>
    ELSE LET g == GCD(Abs(n), Abs(d))
             s == IF d < 0 THEN -1 ELSE 1
         IN  <<(s * n) \div g, (s * d) \div g>>

\* the vg.Length of an integer number of units
L(n) == <<n, 1>>

Frac(n, d) == Norm(n, d)

PosInf == <<1, 0>>
NegInf == <<-1, 0>>
NaN == <<0, 0>>

IsFinite(a) == a[2] > 0

LNeg(a) == <<-a[1], a[2]>>

LAdd(a, b) ==
    IF a[2] = 0 /\ b[2] = 0 THEN (IF a[1] = b[1] THEN a ELSE NaN)
    ELSE IF a[2] = 0 THEN a
    ELSE IF b[2] = 0 THEN b
    ELSE Norm(a[1] * b[2] + b[1] * a[2], a[2] * b[2])

LSub(a, b) == LAdd(a, LNeg(b))

LMul(a, b) == Norm(a[1] * b[1], a[2] * b[2])

\* 1/a; 1/0 is +Inf, 1/Inf is 0
LInv(a) == IF a[1] < 0 THEN <<-a[2], -a[1]>> ELSE <<a[2], a[1]>>

LDiv(a, b) == LMul(a, LInv(b))

\* a < b; false when either is NaN
LLt(a, b) ==
    IF a = NaN \/ b = NaN THEN FALSE
    ELSE IF a[2] = 0 /\ b[2] = 0 THEN a[1] < b[1]
    ELSE a[1] * b[2] < b[1] * a[2]

LLe(a, b) == a # NaN /\ b # NaN /\ (a = b \/ LLt(a, b))

LGt(a, b) == LLt(b, a)

LGe(a, b) == LLe(b, a)

----------------------------------------------------------------------------
(* point, rect, glyphBox *)

Pt(x, y) == [x |-> x, y |-> y]

ZeroPt == Pt(L(0), L(0))

Rect(mn, sz) == [min |-> mn, size |-> sz]

\* rect.max
max(r) == Pt(LAdd(r.min.x, r.size.x), LAdd(r.min.y, r.size.y))

\* glyphBox{x: x, y: y, rect: rect{min: mn, size: sz}}
GlyphBox(x, y, mn, sz) == [x |-> x, y |-> y, min |-> mn, size |-> sz]

dot(p, q) == LAdd(LMul(p.x, q.x), LMul(p.y, q.y))

plus(p, q) == Pt(LAdd(p.x, q.x), LAdd(p.y, q.y))

minus(p, q) == Pt(LSub(p.x, q.x), LSub(p.y, q.y))

scale(p, s) == Pt(LMul(p.x, s), LMul(p.y, s))

----------------------------------------------------------------------------
(* drawArea *)

\* drawArea.contains
contains(a, p) ==
    /\ LLe(p.x, max(a).x) /\ LGe(p.x, a.min.x)
    /\ LLe(p.y, max(a).y) /\ LGe(p.y, a.min.y)

\* drawArea.x
x(a, u) == LAdd(LMul(u, LSub(max(a).x, a.min.x)), a.min.x)

\* drawArea.y
y(a, u) == LAdd(LMul(u, LSub(max(a).y, a.min.y)), a.min.y)

\* A call on a pointer receiver: the receiver's rect after the call (recv)
\* and the rect of the drawArea returned (ret).
Call(recv, r) == [recv |-> recv, ret |-> r]

\* A crop that works in place: the receiver's rect becomes the cropped one.
cropInPlace(a, minx, miny, maxx, maxy) ==
    LET minpt == Pt(LAdd(a.min.x, minx), LAdd(a.min.y, miny))
        sz == Pt(LSub(LAdd(max(a).x, maxx), minpt.x),
                 LSub(LAdd(max(a).y, maxy), minpt.y))
    IN  Call(Rect(minpt, sz), Rect(minpt, sz))

\* drawArea.crop
crop(a, minx, miny, maxx, maxy) ==
    LET minpt == Pt(LAdd(a.min.x, minx), LAdd(a.min.y, miny))
        sz == Pt(LSub(LAdd(max(a).x, maxx), minpt.x),
                 LSub(LAdd(max(a).y, maxy), minpt.y))
    IN  Call(a, Rect(minpt, sz))

\* boxes = append(boxes, glyphBox{}, glyphBox{x: 1})
withBoundsX(bs) ==
    bs \o <<GlyphBox(L(0), L(0), ZeroPt, ZeroPt), GlyphBox(L(1), L(0), ZeroPt, ZeroPt)>>

\* boxes = append(boxes, glyphBox{}, glyphBox{y: 1})
withBoundsY(bs) ==
    bs \o <<GlyphBox(L(0), L(0), ZeroPt, ZeroPt), GlyphBox(L(0), L(1), ZeroPt, ZeroPt)>>

\* One iteration of squishX's loop over the boxes; s = [left, right, minx, maxx].
scanStepX(a, s, b) ==
    LET lo == LAdd(x(a, b.x), b.min.x)
        hi == LAdd(LAdd(x(a, b.x), b.min.x), b.size.x)
        s1 == IF LLt(lo, s.minx) THEN [s EXCEPT !.left = b.x, !.minx = lo] ELSE s
    IN  IF LGt(hi, s1.maxx) THEN [s1 EXCEPT !.right = b.x, !.maxx = hi] ELSE s1

RECURSIVE scanFromX(_, _, _, _)
scanFromX(a, bs, i, s) ==
    IF i > Len(bs) THEN s ELSE scanFromX(a, bs, i + 1, scanStepX(a, s, bs[i]))

\* squishX's loop: the anchors left and right and the extreme edges minx, maxx.
scanX(a, bs) ==
    scanFromX(a, withBoundsX(bs), 1,
              [left |-> L(0), right |-> L(0), minx |-> PosInf, maxx |-> NegInf])

\* One iteration of squishY's loop; s = [left |-> bot, right |-> top, minx |-> miny, maxx |-> maxy].
scanStepY(a, s, b) ==
    LET lo == LAdd(y(a, b.y), b.min.y)
        hi == LAdd(LAdd(y(a, b.y), b.min.y), b.size.y)
        s1 == IF LLt(lo, s.minx) THEN [s EXCEPT !.left = b.y, !.minx = lo] ELSE s
    IN  IF LGt(hi, s1.maxx) THEN [s1 EXCEPT !.right = b.y, !.maxx = hi] ELSE s1

RECURSIVE scanFromY(_, _, _, _)
scanFromY(a, bs, i, s) ==
    IF i > Len(bs) THEN s ELSE scanFromY(a, bs, i + 1, scanStepY(a, s, bs[i]))

\* squishY's loop: the anchors bot (left) and top (right) and miny, maxy.
scanY(a, bs) ==
    scanFromY(a, withBoundsY(bs), 1,
              [left |-> L(0), right |-> L(0), minx |-> PosInf, maxx |-> NegInf])

\* The closed form shared by squishX and squishY: from the scan s and the
\* axis extent [lo, hi] of the area, the new min n and the new size m - n.
solve(s, lo, hi) ==
    LET minx == IF LGe(s.minx, lo) THEN lo ELSE s.minx
        maxx == IF LLe(s.maxx, hi) THEN hi ELSE s.maxx
        l == LAdd(lo, LSub(lo, minx))
        r == LSub(hi, LSub(maxx, hi))
        left == s.left
        right == s.right
        n == LDiv(LSub(LMul(left, r), LMul(right, l)), LSub(left, right))
        m == LDiv(LAdd(LSub(LMul(LSub(left, L(1)), r), LMul(right, l)), l),
                  LSub(left, right))
    IN  [n |-> n, size |-> LSub(m, n)]

\* drawArea.squishX
squishX(a, bs) ==
    IF Len(bs) = 0 THEN Call(a, a)
    ELSE LET nm == solve(scanX(a, bs), a.min.x, max(a).x)
         IN  Call(a, Rect(Pt(nm.n, a.min.y), Pt(nm.size, a.size.y)))

\* drawArea.squishY
squishY(a, bs) ==
    IF Len(bs) = 0 THEN Call(a, a)
    ELSE LET nm == solve(scanY(a, bs), a.min.y, max(a).y)
         IN  Call(a, Rect(Pt(a.min.x, nm.n), Pt(a.size.x, nm.size)))

----------------------------------------------------------------------------
(* Inputs of the squish model *)

MaxBoxes == 2

\* Drawing areas of positive width and height.
Areas ==
    { Rect(Pt(L(0), L(0)), Pt(L(100), L(80))),
      Rect(Pt(L(10), L(20)), Pt(L(100), L(80))) }

\* (anchor, footprint min, footprint size) on one axis.
Profiles ==
    { <<Frac(1, 2), L(-5), L(10)>>,     \* fits well inside
      <<L(0), L(-10), L(20)>>,          \* hangs over the low edge, anchored at 0
      <<L(1), L(-10), L(20)>>,          \* hangs over the high edge, anchored at 1
      <<Frac(1, 2), L(-60), L(20)>>,    \* hangs over the low edge, anchored inside
      <<Frac(1, 2), L(-50), L(20)>>,    \* anchored inside, reaches the low edge or beyond
      <<Frac(1, 2), L(-60), L(120)>> }  \* wider than the area

\* Boxes with a footprint on the x axis only and on the y axis only, as the
\* axes' glyphBoxes build them, and boxes with the same footprint on both.
GlyphBoxes ==
    { GlyphBox(p[1], L(0), Pt(p[2], L(0)), Pt(p[3], L(0))) : p \in Profiles }
    \cup { GlyphBox(L(0), p[1], Pt(L(0), p[2]), Pt(L(0), p[3])) : p \in Profiles }
    \cup { GlyphBox(p[1], p[1], Pt(p[2], p[2]), Pt(p[3], p[3])) : p \in Profiles }

SeqsUpTo(S, n) == UNION { [1..k -> S] : k \in 0..n }

CropArgs == { <<5, 5, -5, -5>>, <<0, 10, 0, 0>>, <<-5, 0, 5, -10>> }

NoRect == [min |-> "none", size |-> "none"]

Idle ==
    /\ pts = <<>>
    /\ runs = <<>>
    /\ sty = [Shape |-> 0, Radius |-> L(0)]
    /\ pt = ZeroPt
    /\ canvas = <<>>
    /\ panicked = "none"
    /\ wrapped = <<>>
    /\ result = <<>>
    /\ axis = "none"
    /\ extent = L(0)

InitSquish ==
    /\ da \in Areas
    /\ boxes \in SeqsUpTo(GlyphBoxes, MaxBoxes)
    /\ op = "init"
    /\ ret = NoRect
    /\ Idle

Crop ==
    /\ op = "init"
    /\ \E c \in CropArgs :
          LET out == crop(da, L(c[1]), L(c[2]), L(c[3]), L(c[4]))
          IN  /\ da' = out.recv
              /\ ret' = out.ret
    /\ op' = "crop"
    /\ UNCHANGED <<boxes, pts, runs, sty, pt, canvas, panicked, wrapped, result, axis, extent>>

SquishX ==
    /\ op = "init"
    /\ LET out == squishX(da, boxes)
       IN  /\ da' = out.recv
           /\ ret' = out.ret
    /\ op' = "squishX"
    /\ UNCHANGED <<boxes, pts, runs, sty, pt, canvas, panicked, wrapped, result, axis, extent>>

SquishY ==
    /\ op = "init"
    /\ LET out == squishY(da, boxes)
       IN  /\ da' = out.recv
           /\ ret' = out.ret
    /\ op' = "squishY"
    /\ UNCHANGED <<boxes, pts, runs, sty, pt, canvas, panicked, wrapped, result, axis, extent>>

NextSquish == Crop \/ SquishX \/ SquishY

SpecSquish == InitSquish /\ [][NextSquish]_vars

----------------------------------------------------------------------------
(* The polyline clipper.  Lengths are counted in units of 1e-8, so that    *)
(* the tolerance 3e-8 is the integer 3.                                    *)

\* slop, in units of 1e-8
slop == 3

isLeft(p, c) == LLe(p.x, LAdd(c.x, L(slop)))

isRight(p, c) == LGe(p.x, LSub(c.x, L(slop)))

isBelow(p, c) == LLe(p.y, LAdd(c.y, L(slop)))

isAbove(p, c) == LGe(p.y, LSub(c.y, L(slop)))

\* isect: the intersection of p0 -> p1 with the line through c with normal norm
isect(p0, p1, c, norm) ==
    LET t == LDiv(dot(minus(p0, c), norm), dot(minus(p0, p1), norm))
    IN  plus(scale(minus(p1, p0), t), p0)

Edges == {"right", "bottom", "left", "top"}

\* The `in` function strokeClippedLine passes to clip for each edge.
inside(e, p, c) ==
    CASE e = "right" -> isLeft(p, c)
      [] e = "bottom" -> isAbove(p, c)
      [] e = "left" -> isRight(p, c)
      [] e = "top" -> isBelow(p, c)

\* The clip point strokeClippedLine passes to clip for each edge.
clipPoint(e, a) ==
    CASE e = "right" -> Pt(max(a).x, a.min.y)
      [] e = "bottom" -> Pt(a.min.x, a.min.y)
      [] e = "left" -> Pt(a.min.x, a.min.y)
      [] e = "top" -> Pt(a.min.x, max(a).y)

\* The normal strokeClippedLine passes to clip for each edge.
normal(e) ==
    CASE e = "right" -> Pt(L(-1), L(0))
      [] e = "bottom" -> Pt(L(0), L(-1))
      [] e = "left" -> Pt(L(1), L(0))
      [] e = "top" -> Pt(L(0), L(1))

\* An iteration of clip's loop that never appends the last point of the
\* polyline to the open run.
clipStepNoLast(e, c, ps, i, s) ==
    LET cur == ps[i - 1]
        next == ps[i]
        curIn == inside(e, cur, c)
        nextIn == inside(e, next, c)
    IN  CASE curIn /\ nextIn -> [s EXCEPT !.l = Append(s.l, cur)]
          [] curIn /\ ~nextIn ->
               [l |-> <<>>,
                lines |-> Append(s.lines,
                                 s.l \o <<cur, isect(cur, next, c, normal(e))>>)]
          [] ~curIn /\ ~nextIn -> s
          [] OTHER -> [s EXCEPT !.l = Append(s.l, isect(cur, next, c, normal(e)))]

\* One iteration of clip's loop, for the pair ps[i-1], ps[i] (1-based);
\* s = [l |-> the open run, lines |-> the closed runs].
clipStep(e, c, ps, i, s) ==
    LET cur == ps[i - 1]
        next == ps[i]
        curIn == inside(e, cur, c)
        nextIn == inside(e, next, c)
        s1 == CASE curIn /\ nextIn -> [s EXCEPT !.l = Append(s.l, cur)]
                [] curIn /\ ~nextIn ->
                     [l |-> <<>>,
                      lines |-> Append(s.lines,
                                       s.l \o <<cur, isect(cur, next, c, normal(e))>>)]
                [] ~curIn /\ ~nextIn -> s
                [] OTHER -> [s EXCEPT !.l = Append(s.l, isect(cur, next, c, normal(e)))]
    IN  IF nextIn /\ i = Len(ps) THEN [s1 EXCEPT !.l = Append(s1.l, next)] ELSE s1

RECURSIVE clipFrom(_, _, _, _, _)
clipFrom(e, c, ps, i, s) ==
    IF i > Len(ps) THEN s ELSE clipFrom(e, c, ps, i + 1, clipStep(e, c, ps, i, s))

\* clip, called with the `in` function, clip point and normal of edge e of area a
clip(e, a, ps) ==
    LET s == clipFrom(e, clipPoint(e, a), ps, 2, [l |-> <<>>, lines |-> <<>>])
    IN  IF Len(s.l) > 1 THEN Append(s.lines, s.l) ELSE s.lines

\* One pass of strokeClippedLine: every line clipped at edge e, the runs appended in order.
RECURSIVE clipEach(_, _, _, _)
clipEach(e, a, ls, i) ==
    IF i > Len(ls) THEN <<>> ELSE clip(e, a, ls[i]) \o clipEach(e, a, ls, i + 1)

\* The passes of strokeClippedLine, taken in the order given.
RECURSIVE clipPasses(_, _, _, _)
clipPasses(order, a, ls, k) ==
    IF k > Len(order) THEN ls
    ELSE clipPasses(order, a, clipEach(order[k], a, ls, 1), k + 1)

\* The runs strokeClippedLine strokes: clip right, bottom, left, top.
clippedLines(a, ps) == clipPasses(<<"right", "bottom", "left", "top">>, a, <<ps>>, 1)

Cmd(c, arg) == [cmd |-> c, arg |-> arg]

\* drawArea.setLineStyle
setLineStyle(style) ==
    <<Cmd("SetColor", style), Cmd("SetLineWidth", style), Cmd("SetLineDash", style)>>

\* drawArea.strokeLine: the canvas commands of one call
strokeLine(style, ps) ==
    IF Len(ps) = 0 THEN <<>>
    ELSE setLineStyle(style) \o <<Cmd("Stroke", <<ps[1]>> \o ps)>>

RECURSIVE strokeEach(_, _, _)
strokeEach(style, ls, i) ==
    IF i > Len(ls) THEN <<>> ELSE strokeLine(style, ls[i]) \o strokeEach(style, ls, i + 1)

----------------------------------------------------------------------------
(* Inputs of the clipping model *)

MaxPts == 3

ClipAreas == { Rect(Pt(L(0), L(0)), Pt(L(10), L(10))) }

\* Coordinates left of, on, inside, on, within slop of and beyond the edges.
Xs == {-4, 0, 5, 10, 12, 14}
Ys == {-4, 0, 5, 10, 12, 14, 20}

Points == { Pt(L(px), L(py)) : px \in Xs, py \in Ys }

InitClip ==
    /\ da \in ClipAreas
    /\ pts \in SeqsUpTo(Points, MaxPts)
    /\ op = "init"
    /\ runs = <<>>
    /\ boxes = <<>>
    /\ ret = NoRect
    /\ sty = [Shape |-> 0, Radius |-> L(0)]
    /\ pt = ZeroPt
    /\ canvas = <<>>
    /\ panicked = "none"
    /\ wrapped = <<>>
    /\ result = <<>>
    /\ axis = "none"
    /\ extent = L(0)

StrokeClippedLine ==
    /\ op = "init"
    /\ runs' = clippedLines(da, pts)
    /\ canvas' = canvas \o strokeEach("LineStyle", runs', 1)
    /\ op' = "strokeClippedLine"
    /\ UNCHANGED <<da, boxes, ret, pts, sty, pt, panicked, wrapped, result, axis, extent>>

NextClip == StrokeClippedLine

SpecClip == InitClip /\ [][NextClip]_vars

\* Polylines whose points lie in the area or within slop of it.
MaxNearPts == 3

NearAreas == ClipAreas \cup { Rect(Pt(L(0), L(0)), Pt(L(12), L(10))) }

NearXs == {0, 5, 10, 12}
NearYs == {0, 10, 12}

NearPoints == { Pt(L(px), L(py)) : px \in NearXs, py \in NearYs }

InitClipNear ==
    /\ da \in NearAreas
    /\ pts \in SeqsUpTo(NearPoints, MaxNearPts)
    /\ op = "init"
    /\ runs = <<>>
    /\ boxes = <<>>
    /\ ret = NoRect
    /\ sty = [Shape |-> 0, Radius |-> L(0)]
    /\ pt = ZeroPt
    /\ canvas = <<>>
    /\ panicked = "none"
    /\ wrapped = <<>>
    /\ result = <<>>
    /\ axis = "none"
    /\ extent = L(0)

SpecClipNear == InitClipNear /\ [][NextClip]_vars

----------------------------------------------------------------------------
(* drawGlyph *)

CircleGlyph == 0

RingGlyph == 1

\* 'A' and 'Z'
LetterA == 65
LetterZ == 90

\* The path of the circle drawGlyph fills or strokes.
circlePath(style, p) ==
    [move |-> Pt(LAdd(p.x, style.Radius), p.y), arc |-> p, radius |-> style.Radius]

\* A drawGlyph whose switch has no default case: an invalid shape draws nothing.
drawGlyphNoDefault(a, style, p, fontOk) ==
    IF ~contains(a, p) THEN [canvas |-> <<>>, panicked |-> "none"]
    ELSE LET pre == setLineStyle("LineStyle{Width: 0.5pt}")
                        \o <<Cmd("SetColor", "sty.Color")>>
         IN  CASE style.Shape = CircleGlyph ->
                    [canvas |-> Append(pre, Cmd("Fill", circlePath(style, p))),
                     panicked |-> "none"]
               [] style.Shape = RingGlyph ->
                    [canvas |-> Append(pre, Cmd("Stroke", circlePath(style, p))),
                     panicked |-> "none"]
               [] style.Shape >= LetterA /\ style.Shape <= LetterZ ->
                    IF fontOk
                    THEN [canvas |-> Append(pre, Cmd("FillText", style.Shape)),
                          panicked |-> "none"]
                    ELSE [canvas |-> pre, panicked |-> "MakeFont error"]
               [] OTHER -> [canvas |-> pre, panicked |-> "none"]

\* drawGlyph: the canvas commands it issues and the panic that ends it, if
\* any.  fontOk: whether vg.MakeFont(defaultFont, ...) returns a font.
drawGlyph(a, style, p, fontOk) ==
    IF ~contains(a, p) THEN [canvas |-> <<>>, panicked |-> "none"]
    ELSE LET pre == setLineStyle("LineStyle{Width: 0.5pt}")
                        \o <<Cmd("SetColor", "sty.Color")>>
         IN  CASE style.Shape = CircleGlyph ->
                    [canvas |-> Append(pre, Cmd("Fill", circlePath(style, p))),
                     panicked |-> "none"]
               [] style.Shape = RingGlyph ->
                    [canvas |-> Append(pre, Cmd("Stroke", circlePath(style, p))),
                     panicked |-> "none"]
               [] style.Shape >= LetterA /\ style.Shape <= LetterZ ->
                    IF fontOk
                    THEN [canvas |-> Append(pre, Cmd("FillText", style.Shape)),
                          panicked |-> "none"]
                    ELSE [canvas |-> pre, panicked |-> "MakeFont error"]
               [] OTHER -> [canvas |-> pre, panicked |-> "Invalid GlyphShape"]

\* GlyphShape is a uint8: the two constants, letters, and values around them.
Shapes == {0, 1, 2, 64, 65, 77, 90, 91, 255}

Radii == {L(1), L(2)}

InitGlyph ==
    /\ da \in ClipAreas
    /\ sty \in [Shape : Shapes, Radius : Radii]
    /\ pt \in Points
    /\ op = "init"
    /\ canvas = <<>>
    /\ panicked = "none"
    /\ boxes = <<>>
    /\ ret = NoRect
    /\ pts = <<>>
    /\ runs = <<>>
    /\ wrapped = <<>>
    /\ result = <<>>
    /\ axis = "none"
    /\ extent = L(0)

DrawGlyph ==
    /\ op = "init"
    /\ \E fontOk \in BOOLEAN :
          LET out == drawGlyph(da, sty, pt, fontOk)
          IN  /\ canvas' = canvas \o out.canvas
              /\ panicked' = out.panicked
    /\ op' = "drawGlyph"
    /\ UNCHANGED <<da, boxes, ret, pts, runs, sty, pt, wrapped, result, axis, extent>>

NextGlyph == DrawGlyph

SpecGlyph == InitGlyph /\ [][NextGlyph]_vars

----------------------------------------------------------------------------
(* palette.Reverse *)

\* Reverse.Palette's loop, with 1-based indices: for i < j, c2[i], c2[j] = c[j], c[i].
RECURSIVE reverseLoop(_, _, _, _)
reverseLoop(c, c2, i, j) ==
    IF i < j
    THEN reverseLoop(c, [c2 EXCEPT ![i] = c[j], ![j] = c[i]], i + 1, j - 1)
    ELSE c2

\* Reverse.Palette, given the colors c of the wrapped ColorMap's Palette(colors);
\* make([]color.Color, len(c)) holds nil in every entry.
reversePalette(c) == reverseLoop(c, [i \in 1..Len(c) |-> "nil"], 1, Len(c))

MaxColors == 4

Colors == {"red", "green", "blue"}

InitReverse ==
    /\ wrapped \in SeqsUpTo(Colors, MaxColors)
    /\ result = <<>>
    /\ axis = "none"
    /\ extent = L(0)
    /\ op = "init"
    /\ da \in ClipAreas
    /\ boxes = <<>>
    /\ ret = NoRect
    /\ pts = <<>>
    /\ runs = <<>>
    /\ sty = [Shape |-> 0, Radius |-> L(0)]
    /\ pt = ZeroPt
    /\ canvas = <<>>
    /\ panicked = "none"

Palette ==
    /\ op = "init"
    /\ result' = reversePalette(wrapped)
    /\ op' = "Palette"
    /\ UNCHANGED <<da, boxes, ret, pts, runs, sty, pt, canvas, panicked, wrapped, axis, extent>>

NextReverse == Palette

SpecReverse == InitReverse /\ [][NextReverse]_vars

----------------------------------------------------------------------------
(* Text measurement.  A string is a sequence of characters; "\n" is the    *)
(* newline.  A vg.Font is given by its Size, its Extents and the width cw  *)
(* of one character: Font.Width(line) is Len(line) * cw.                   *)

\* strings.TrimRight(txt, "\n")
RECURSIVE trimRight(_)
trimRight(txt) ==
    IF Len(txt) > 0 /\ txt[Len(txt)] = "\n" THEN trimRight(SubSeq(txt, 1, Len(txt) - 1))
    ELSE txt

\* strings.Split(txt, "\n"): the lines of txt, at least one
RECURSIVE splitFrom(_, _, _)
splitFrom(txt, i, line) ==
    IF i > Len(txt) THEN <<line>>
    ELSE IF txt[i] = "\n" THEN <<line>> \o splitFrom(txt, i + 1, <<>>)
    ELSE splitFrom(txt, i + 1, Append(line, txt[i]))

split(txt) == splitFrom(txt, 1, <<>>)

\* vg.Font.Width
fontWidth(font, line) == LMul(L(Len(line)), font.cw)

\* textNLines
textNLines(txt) ==
    LET t == trimRight(txt)
    IN  IF Len(t) = 0 THEN 0
        ELSE 1 + Cardinality({ i \in 1..Len(t) : t[i] = "\n" })

RECURSIVE widthFrom(_, _, _, _)
widthFrom(font, lines, i, mx) ==
    IF i > Len(lines) THEN mx
    ELSE LET w == fontWidth(font, lines[i])
         IN  widthFrom(font, lines, i + 1, IF LGt(w, mx) THEN w ELSE mx)

\* TextStyle.width
width(font, txt) == widthFrom(font, split(trimRight(txt)), 1, L(0))

\* TextStyle.height
height(font, txt) ==
    LET nl == textNLines(txt)
    IN  IF nl = 0 THEN L(0)
        ELSE LAdd(LMul(font.Height, L(nl - 1)), font.Ascent)

RECURSIVE fillLines(_, _, _, _, _, _, _)
fillLines(font, px, py, xalign, lines, nl, i) ==
    IF i > Len(lines) THEN <<>>
    ELSE LET xoffs == LMul(xalign, fontWidth(font, lines[i]))
             n == L(nl - (i - 1))
         IN  <<Cmd("FillText", [x |-> LAdd(px, xoffs),
                                y |-> LAdd(py, LMul(n, font.Size)),
                                str |-> lines[i]])>>
             \o fillLines(font, px, py, xalign, lines, nl, i + 1)

\* drawArea.fillText: the canvas commands of one call
fillText(font, px, py, xalign, yalign, txt) ==
    LET t == trimRight(txt)
        y0 == LSub(LAdd(py, LMul(height(font, t), yalign)), font.Ascent)
    IN  IF Len(t) = 0 THEN <<>>
        ELSE <<Cmd("SetColor", "sty.Color")>>
             \o fillLines(font, px, y0, xalign, split(t), textNLines(t), 1)

\* drawArea.center
center(a) ==
    Pt(LAdd(LDiv(LSub(max(a).x, a.min.x), L(2)), a.min.x),
       LAdd(LDiv(LSub(max(a).y, a.min.y), L(2)), a.min.y))

\* drawArea.strokeLine2
strokeLine2(style, x0, y0, x1, y1) == strokeLine(style, <<Pt(x0, y0), Pt(x1, y1)>>)

----------------------------------------------------------------------------
(* Axis, horizontalAxis, verticalAxis.  An axis is                         *)
(*   [Min, Max, Text, LabelFont, Width, Padding, TickFont, TickLength,     *)
(*    Ticks, LoopVar]                                                      *)
(* where Ticks is what Tick.Marker(Min, Max) returns and LoopVar says      *)
(* whether the build gives a range loop one variable for all iterations    *)
(* ("shared", Go before 1.22) or a fresh one each ("perIteration").        *)

\* Tick{Value: v, Label: label}
Tick(v, label) == [Value |-> v, Label |-> label]

\* Tick.minor
minor(t) == t.Label = <<>>

\* Tick.lengthOffset
lengthOffset(t, len) == IF minor(t) THEN LDiv(len, L(2)) ELSE L(0)

\* Axis.norm
norm(a, v) == LDiv(LSub(v, a.Min), LSub(a.Max, a.Min))

RECURSIVE tickLabelHeightFrom(_, _, _, _)
tickLabelHeightFrom(font, ticks, i, mx) ==
    IF i > Len(ticks) THEN mx
    ELSE IF minor(ticks[i]) THEN tickLabelHeightFrom(font, ticks, i + 1, mx)
    ELSE LET h == height(font, ticks[i].Label)
         IN  tickLabelHeightFrom(font, ticks, i + 1, IF LGt(h, mx) THEN h ELSE mx)

\* tickLabelHeight
tickLabelHeight(font, ticks) == tickLabelHeightFrom(font, ticks, 1, L(0))

RECURSIVE tickLabelWidthFrom(_, _, _, _)
tickLabelWidthFrom(font, ticks, i, mx) ==
    IF i > Len(ticks) THEN mx
    ELSE IF minor(ticks[i]) THEN tickLabelWidthFrom(font, ticks, i + 1, mx)
    ELSE LET w == width(font, ticks[i].Label)
         IN  tickLabelWidthFrom(font, ticks, i + 1, IF LGt(w, mx) THEN w ELSE mx)

\* tickLabelWidth
tickLabelWidth(font, ticks) == tickLabelWidthFrom(font, ticks, 1, L(0))

\* One iteration of the loop `for _, t := range marks` of glyphBoxes.
\* s = [t |-> the loop variable, set |-> rightMajor # nil,
\*      copy |-> the tick rightMajor points to when each iteration has its own t].
\* With a shared loop variable rightMajor = &t always points to the current t.
majorStep(loopVar, s, tick) ==
    LET pointee == IF loopVar = "shared" THEN tick ELSE s.copy
    IN  IF minor(tick) THEN [s EXCEPT !.t = tick]
        ELSE IF ~s.set \/ LGt(tick.Value, pointee.Value)
        THEN [t |-> tick, set |-> TRUE, copy |-> tick]
        ELSE [s EXCEPT !.t = tick]

RECURSIVE majorFrom(_, _, _, _)
majorFrom(loopVar, ticks, i, s) ==
    IF i > Len(ticks) THEN s
    ELSE majorFrom(loopVar, ticks, i + 1, majorStep(loopVar, s, ticks[i]))

\* The loop of glyphBoxes: [set |-> rightMajor # nil, tick |-> *rightMajor].
extremeMajor(a) ==
    LET s == majorFrom(a.LoopVar, a.Ticks, 1,
                       [t |-> Tick(L(0), <<>>), set |-> FALSE, copy |-> Tick(L(0), <<>>)])
    IN  [set |-> s.set, tick |-> IF a.LoopVar = "shared" THEN s.t ELSE s.copy]

\* horizontalAxis.glyphBoxes
horizontalGlyphBoxes(a) ==
    LET rightMajor == extremeMajor(a)
        w == width(a.TickFont, rightMajor.tick.Label)
    IN  IF ~rightMajor.set THEN <<>>
        ELSE <<GlyphBox(norm(a, rightMajor.tick.Value), L(0),
                        Pt(LDiv(LNeg(w), L(2)), L(0)), Pt(w, L(0)))>>

\* verticalAxis.glyphBoxes
verticalGlyphBoxes(a) ==
    LET topMajor == extremeMajor(a)
        h == height(a.TickFont, topMajor.tick.Label)
    IN  IF ~topMajor.set THEN <<>>
        ELSE <<GlyphBox(L(0), norm(a, topMajor.tick.Value),
                        Pt(L(0), LDiv(LNeg(h), L(2))), Pt(L(0), h))>>

\* horizontalAxis.size
horizontalSize(a) ==
    LET h0 == IF a.Text # <<>>
              THEN LAdd(LSub(L(0), a.LabelFont.Descent), height(a.LabelFont, a.Text))
              ELSE L(0)
        marks == a.Ticks
        h1 == IF Len(marks) > 0
              THEN LAdd(h0, LAdd(a.TickLength, tickLabelHeight(a.TickFont, marks)))
              ELSE h0
    IN  LAdd(LAdd(h1, LDiv(a.Width, L(2))), a.Padding)

RECURSIVE tickLabelsX(_, _, _, _, _)
tickLabelsX(a, area, marks, py, i) ==
    IF i > Len(marks) THEN <<>>
    ELSE (IF minor(marks[i]) THEN <<>>
          ELSE fillText(a.TickFont, x(area, norm(a, marks[i].Value)), py,
                        Frac(-1, 2), L(0), marks[i].Label))
         \o tickLabelsX(a, area, marks, py, i + 1)

RECURSIVE tickMarksX(_, _, _, _, _)
tickMarksX(a, area, marks, py, i) ==
    IF i > Len(marks) THEN <<>>
    ELSE LET px == x(area, norm(a, marks[i].Value))
         IN  strokeLine2("a.Tick.LineStyle",
                         px, LAdd(py, lengthOffset(marks[i], a.TickLength)),
                         px, LAdd(py, a.TickLength))
             \o tickMarksX(a, area, marks, py, i + 1)

\* horizontalAxis.draw: the canvas commands of one call
horizontalDraw(a, area) ==
    LET y0 == area.min.y
        y1 == IF a.Text # <<>> THEN LSub(y0, a.LabelFont.Descent) ELSE y0
        label == IF a.Text # <<>>
                 THEN fillText(a.LabelFont, center(area).x, y1, Frac(-1, 2), L(0), a.Text)
                 ELSE <<>>
        y2 == IF a.Text # <<>> THEN LAdd(y1, height(a.LabelFont, a.Text)) ELSE y1
        marks == a.Ticks
        y3 == LAdd(y2, tickLabelHeight(a.TickFont, marks))
        y4 == IF Len(marks) > 0 THEN LAdd(y3, a.TickLength) ELSE y2
        ticks == IF Len(marks) > 0
                 THEN tickLabelsX(a, area, marks, y2, 1) \o tickMarksX(a, area, marks, y3, 1)
                 ELSE <<>>
    IN  label \o ticks \o strokeLine2("a.LineStyle", area.min.x, y4, max(area).x, y4)

\* verticalAxis.size
verticalSize(a) ==
    LET w0 == IF a.Text # <<>>
              THEN LAdd(LSub(L(0), a.LabelFont.Descent), height(a.LabelFont, a.Text))
              ELSE L(0)
        marks == a.Ticks
        lwidth == tickLabelWidth(a.TickFont, marks)
        w1 == IF LGt(lwidth, L(0))
              THEN LAdd(LAdd(w0, lwidth), width(a.LabelFont, <<" ">>))
              ELSE w0
        w2 == IF Len(marks) > 0 THEN LAdd(w1, a.TickLength) ELSE w0
    IN  LAdd(LAdd(w2, LDiv(a.Width, L(2))), a.Padding)

RECURSIVE tickLabelsY(_, _, _, _, _)
tickLabelsY(a, area, marks, px, i) ==
    IF i > Len(marks) THEN <<>>
    ELSE (IF minor(marks[i]) THEN <<>>
          ELSE fillText(a.TickFont, px, y(area, norm(a, marks[i].Value)),
                        L(-1), Frac(-1, 2), marks[i].Label))
         \o tickLabelsY(a, area, marks, px, i + 1)

RECURSIVE tickMarksY(_, _, _, _, _)
tickMarksY(a, area, marks, px, i) ==
    IF i > Len(marks) THEN <<>>
    ELSE LET py == y(area, norm(a, marks[i].Value))
         IN  strokeLine2("a.Tick.LineStyle",
                         LAdd(px, lengthOffset(marks[i], a.TickLength)), py,
                         LAdd(px, a.TickLength), py)
             \o tickMarksY(a, area, marks, px, i + 1)

\* verticalAxis.draw: the canvas commands of one call
verticalDraw(a, area) ==
    LET x0 == area.min.x
        x1 == IF a.Text # <<>> THEN LAdd(x0, height(a.LabelFont, a.Text)) ELSE x0
        label == IF a.Text # <<>>
                 THEN <<Cmd("Push", <<>>), Cmd("Rotate", "math.Pi / 2")>>
                      \o fillText(a.LabelFont, center(area).y, LNeg(x1),
                                  Frac(-1, 2), L(0), a.Text)
                      \o <<Cmd("Pop", <<>>)>>
                 ELSE <<>>
        x2 == IF a.Text # <<>> THEN LAdd(x1, LNeg(a.LabelFont.Descent)) ELSE x1
        marks == a.Ticks
        lwidth == tickLabelWidth(a.TickFont, marks)
        x3 == IF LGt(lwidth, L(0)) THEN LAdd(x2, lwidth) ELSE x2
        major == \E i \in 1..Len(marks) : ~minor(marks[i])
        x4 == IF major THEN LAdd(x3, width(a.TickFont, <<" ">>)) ELSE x3
        x5 == IF Len(marks) > 0 THEN LAdd(x4, a.TickLength) ELSE x2
        ticks == IF Len(marks) > 0
                 THEN tickLabelsY(a, area, marks, x3, 1) \o tickMarksY(a, area, marks, x4, 1)
                 ELSE <<>>
    IN  label \o ticks \o strokeLine2("a.LineStyle", x5, area.min.y, x5, max(area).y)

----------------------------------------------------------------------------
(* Inputs of the axis model *)

MaxTicks == 2

\* vg.Font of the axis label (12pt) and of the tick labels (10pt) of makeAxis:
\* Size, the width of one character, and Extents.
Font12 == [Size |-> L(12), cw |-> L(6), Ascent |-> L(9), Descent |-> L(-3), Height |-> L(14)]

Font10 == [Size |-> L(10), cw |-> L(5), Ascent |-> L(8), Descent |-> L(-2), Height |-> L(12)]

Fonts == { Font10, Font12 }

\* Axis label texts: none, and one character.
Texts == { <<>>, <<"a">> }

\* Tick labels: minor, one and two characters, and a label of zero width.
Labels == { <<>>, <<"a">>, <<"a", "a">>, <<"\n">> }

\* Ticks inside the range [0, 4] of the axis.
Ticks == { Tick(L(v), label) : v \in {1, 3}, label \in Labels }

\* ConstantTicks: the Marker returns the given ticks, in the given order.
ConstantTicks(ts) == ts

Axes ==
    { [Kind |-> k, Min |-> L(0), Max |-> L(4), Text |-> txt, LabelFont |-> lf,
       Width |-> L(1), Padding |-> L(5), TickFont |-> tf, TickLength |-> L(8),
       Ticks |-> ConstantTicks(ts), LoopVar |-> lv] :
        k \in {"horizontal", "vertical"}, txt \in Texts, lf \in Fonts, tf \in Fonts,
        ts \in SeqsUpTo(Ticks, MaxTicks), lv \in {"shared", "perIteration"} }

\* No call has returned yet: extent, boxes and canvas are empty.
InitAxis ==
    /\ axis \in Axes
    /\ da \in Areas
    /\ extent = <<>>
    /\ boxes = <<>>
    /\ canvas = <<>>
    /\ op = "init"
    /\ ret = NoRect
    /\ pts = <<>>
    /\ runs = <<>>
    /\ sty = [Shape |-> 0, Radius |-> L(0)]
    /\ pt = ZeroPt
    /\ panicked = "none"
    /\ wrapped = <<>>
    /\ result = <<>>

HorizontalSize ==
    /\ axis.Kind = "horizontal"
    /\ extent' = horizontalSize(axis)
    /\ op' = "size"
    /\ UNCHANGED <<da, boxes, ret, pts, runs, sty, pt, canvas, panicked, wrapped, result, axis>>

\* A canvas is drawn on once.
HorizontalDraw ==
    /\ axis.Kind = "horizontal"
    /\ canvas = <<>>
    /\ canvas' = canvas \o horizontalDraw(axis, da)
    /\ op' = "draw"
    /\ UNCHANGED <<da, boxes, ret, pts, runs, sty, pt, panicked, wrapped, result, axis, extent>>

HorizontalGlyphBoxes ==
    /\ axis.Kind = "horizontal"
    /\ boxes' = horizontalGlyphBoxes(axis)
    /\ op' = "glyphBoxes"
    /\ UNCHANGED <<da, ret, pts, runs, sty, pt, canvas, panicked, wrapped, result, axis, extent>>

VerticalSize ==
    /\ axis.Kind = "vertical"
    /\ extent' = verticalSize(axis)
    /\ op' = "size"
    /\ UNCHANGED <<da, boxes, ret, pts, runs, sty, pt, canvas, panicked, wrapped, result, axis>>

VerticalDraw ==
    /\ axis.Kind = "vertical"
    /\ canvas = <<>>
    /\ canvas' = canvas \o verticalDraw(axis, da)
    /\ op' = "draw"
    /\ UNCHANGED <<da, boxes, ret, pts, runs, sty, pt, panicked, wrapped, result, axis, extent>>

VerticalGlyphBoxes ==
    /\ axis.Kind = "vertical"
    /\ boxes' = verticalGlyphBoxes(axis)
    /\ op' = "glyphBoxes"
    /\ UNCHANGED <<da, ret, pts, runs, sty, pt, canvas, panicked, wrapped, result, axis, extent>>

NextAxis ==
    \/ HorizontalSize
    \/ HorizontalDraw
    \/ HorizontalGlyphBoxes
    \/ VerticalSize
    \/ VerticalDraw
    \/ VerticalGlyphBoxes

SpecAxis == InitAxis /\ [][NextAxis]_vars

----------------------------------------------------------------------------
(* Properties of crop, squishX and squishY *)

\* The footprint of box b on the x axis when its anchor is mapped through area a.
loX(a, b) == LAdd(x(a, b.x), b.min.x)
hiX(a, b) == LAdd(LAdd(x(a, b.x), b.min.x), b.size.x)
loY(a, b) == LAdd(y(a, b.y), b.min.y)
hiY(a, b) == LAdd(LAdd(y(a, b.y), b.min.y), b.size.y)

exceedsX(a, b) == LLt(loX(a, b), a.min.x) \/ LGt(hiX(a, b), max(a).x)
exceedsY(a, b) == LLt(loY(a, b), a.min.y) \/ LGt(hiY(a, b), max(a).y)

Squished(name) == op = name /\ Len(boxes) > 0

\* C1: after squishX(boxes) on an area of positive width with a non-empty
\* box list, every box whose footprint exceeded the original bounds has,
\* mapped through the returned area, its footprint inside the original
\* bounds on the x axis; the same for squishY on the y axis.
C1_SquishBoundary ==
    /\ Squished("squishX") =>
          \A i \in 1..Len(boxes) :
              exceedsX(da, boxes[i]) =>
                  /\ LLe(da.min.x, loX(ret, boxes[i]))
                  /\ LLe(hiX(ret, boxes[i]), max(da).x)
    /\ Squished("squishY") =>
          \A i \in 1..Len(boxes) :
              exceedsY(da, boxes[i]) =>
                  /\ LLe(da.min.y, loY(ret, boxes[i]))
                  /\ LLe(hiY(ret, boxes[i]), max(da).y)

\* C7: crop, squishX and squishY leave the receiver's min and size
\* unchanged; the area squishX returns has the receiver's min.y and size.y,
\* the area squishY returns has the receiver's min.x and size.x, and for an
\* empty box list the returned area has the receiver's min and size.
C7_FrameStep ==
    /\ da' = da
    /\ op' = "squishX" => ret'.min.y = da.min.y /\ ret'.size.y = da.size.y
    /\ op' = "squishY" => ret'.min.x = da.min.x /\ ret'.size.x = da.size.x
    /\ (op' \in {"squishX", "squishY"} /\ Len(boxes) = 0) => ret' = da

C7_Frame == [][C7_FrameStep]_vars

\* A squishX that moved the x extent of a non-empty box list's area.
C7_Witness ==
    /\ Squished("squishX")
    /\ IsFinite(ret.min.x)
    /\ ret.min.x # da.min.x
    /\ ret.min.y = da.min.y

allOnBoundsX == \A i \in 1..Len(boxes) : boxes[i].x \in {L(0), L(1)}
allOnBoundsY == \A i \in 1..Len(boxes) : boxes[i].y \in {L(0), L(1)}

\* C8: for an area of positive width and a non-empty box list not all of
\* whose boxes are anchored at 0 or 1, the anchors left and right that
\* squishX selects are distinct and the returned min and size are finite;
\* the same for bot and top in squishY.
C8_NoZeroDivide ==
    /\ (Squished("squishX") /\ ~allOnBoundsX) =>
          /\ scanX(da, boxes).left # scanX(da, boxes).right
          /\ IsFinite(ret.min.x) /\ IsFinite(ret.size.x)
    /\ (Squished("squishY") /\ ~allOnBoundsY) =>
          /\ scanY(da, boxes).left # scanY(da, boxes).right
          /\ IsFinite(ret.min.y) /\ IsFinite(ret.size.y)

allFitX == \A i \in 1..Len(boxes) : ~exceedsX(da, boxes[i])
allFitY == \A i \in 1..Len(boxes) : ~exceedsY(da, boxes[i])

\* C9: when left # right the area squishX returns lies inside the original
\* on the x axis and has no negative width, and when every footprint
\* already fits it has the original min.x and size.x; the same for squishY.
C9_SubRectangle ==
    /\ (Squished("squishX") /\ scanX(da, boxes).left # scanX(da, boxes).right) =>
          /\ LLe(da.min.x, ret.min.x)
          /\ LLe(ret.min.x, max(ret).x)
          /\ LLe(max(ret).x, max(da).x)
          /\ allFitX => (ret.min.x = da.min.x /\ ret.size.x = da.size.x)
    /\ (Squished("squishY") /\ scanY(da, boxes).left # scanY(da, boxes).right) =>
          /\ LLe(da.min.y, ret.min.y)
          /\ LLe(ret.min.y, max(ret).y)
          /\ LLe(max(ret).y, max(da).y)
          /\ allFitY => (ret.min.y = da.min.y /\ ret.size.y = da.size.y)

----------------------------------------------------------------------------
(* Properties of strokeClippedLine *)

Clipped == op = "strokeClippedLine"

\* p lies in the rectangle of area a grown by d on every side.
within(a, p, d) ==
    /\ LLe(LSub(a.min.x, d), p.x) /\ LLe(p.x, LAdd(max(a).x, d))
    /\ LLe(LSub(a.min.y, d), p.y) /\ LLe(p.y, LAdd(max(a).y, d))

\* C2: every point of every run strokeClippedLine hands to strokeLine lies
\* inside the area's rectangle on both axes, up to slop.
C2_ClipContainment ==
    Clipped =>
        \A i \in 1..Len(runs) : \A k \in 1..Len(runs[i]) :
            within(da, runs[i][k], L(slop))

allInside == \A i \in 1..Len(pts) : contains(da, pts[i])

\* C3 as stated: a non-empty polyline all of whose points the rectangle
\* contains is clipped to exactly one run, the polyline itself.
C3_IdempotentAnyLength ==
    (Clipped /\ Len(pts) > 0 /\ allInside) => runs = <<pts>>

\* C3, amended: a polyline of at least two points, all of which the
\* rectangle contains, is clipped to exactly one run, the polyline itself.
C3_Idempotent ==
    (Clipped /\ Len(pts) >= 2 /\ allInside) => runs = <<pts>>

\* A polyline of three contained points, one of them a corner of the
\* rectangle, stroked as it was given.
C3_Witness ==
    /\ Clipped /\ Len(pts) = 3 /\ allInside
    /\ \E i \in 1..3 : pts[i] = max(da)
    /\ pts[1] # pts[2]
    /\ runs = <<pts>>

\* (q - p) x (c - p)
cross(p, q, c) ==
    LSub(LMul(LSub(q.x, p.x), LSub(c.y, p.y)), LMul(LSub(q.y, p.y), LSub(c.x, p.x)))

\* The segment p -> q has no point in the rectangle [lo, hi]: an edge of the
\* rectangle or the line through p and q separates the two.
segmentMisses(p, q, lo, hi) ==
    LET corners == {Pt(lo.x, lo.y), Pt(lo.x, hi.y), Pt(hi.x, lo.y), Pt(hi.x, hi.y)}
    IN  \/ LLt(p.x, lo.x) /\ LLt(q.x, lo.x)
        \/ LGt(p.x, hi.x) /\ LGt(q.x, hi.x)
        \/ LLt(p.y, lo.y) /\ LLt(q.y, lo.y)
        \/ LGt(p.y, hi.y) /\ LGt(q.y, hi.y)
        \/ \A c \in corners : LGt(cross(p, q, c), L(0))
        \/ \A c \in corners : LLt(cross(p, q, c), L(0))

\* No part of the polyline ps lies in the rectangle of area a grown by d.
polylineMisses(a, ps, d) ==
    LET lo == Pt(LSub(a.min.x, d), LSub(a.min.y, d))
        hi == Pt(LAdd(max(a).x, d), LAdd(max(a).y, d))
    IN  /\ \A i \in 1..Len(ps) : ~within(a, ps[i], d)
        /\ \A i \in 2..Len(ps) : segmentMisses(ps[i - 1], ps[i], lo, hi)

\* C4: a polyline no part of which lies inside the rectangle is clipped to
\* no run at all.  "Inside" is read with the clipper's own tolerance, the
\* rectangle grown by slop on every side, the reading most favourable to
\* the code: such a polyline has no part inside the rectangle itself.
C4_ClipTotality ==
    (Clipped /\ polylineMisses(da, pts, L(slop))) => runs = <<>>

Orders == { o \in [1..4 -> Edges] : \A i, k \in 1..4 : o[i] = o[k] => i = k }

\* C10: the four half-plane clips give the same final list of runs in
\* every one of the 24 orders in which the edges can be applied.
C10_EdgeOrderIndependent ==
    Clipped => \A o \in Orders : clipPasses(o, da, <<pts>>, 1) = runs

----------------------------------------------------------------------------
(* Properties of Reverse.Palette *)

\* C5: Reverse.Palette returns the colors of the wrapped palette in reverse
\* order: the same length L, result[i] = c[L-1-i] for every index (here
\* 1-based: result[i] = c[L+1-i]), and no entry left unset.
C5_PaletteReversed ==
    op = "Palette" =>
        /\ Len(result) = Len(wrapped)
        /\ \A i \in 1..Len(wrapped) :
              result[i] # "nil" /\ result[i] = wrapped[Len(wrapped) + 1 - i]

----------------------------------------------------------------------------
(* Properties of drawGlyph *)

invalidShape ==
    /\ sty.Shape # CircleGlyph
    /\ sty.Shape # RingGlyph
    /\ ~(sty.Shape >= LetterA /\ sty.Shape <= LetterZ)

\* C6 as stated: for an invalid shape and any point, inside the area or
\* not, drawGlyph aborts with the invalid-shape error before it issues any
\* canvas command.
C6_InvalidShapeAlwaysFatal ==
    (op = "drawGlyph" /\ invalidShape) =>
        panicked = "Invalid GlyphShape" /\ canvas = <<>>

paints(c) == c.cmd \in {"Fill", "Stroke", "FillText"}

\* C6, amended: for an invalid shape and a point inside the area, drawGlyph
\* aborts with the invalid-shape error before any painting command (Fill,
\* Stroke, FillText), having issued the style commands SetColor,
\* SetLineWidth, SetLineDash, SetColor; for a point outside the area it
\* returns without error and without any canvas command.
C6_InvalidShapeFatalInside ==
    (op = "drawGlyph" /\ invalidShape) =>
        IF contains(da, pt)
        THEN /\ panicked = "Invalid GlyphShape"
             /\ [i \in 1..Len(canvas) |-> canvas[i].cmd]
                    = <<"SetColor", "SetLineWidth", "SetLineDash", "SetColor">>
             /\ \A i \in 1..Len(canvas) : ~paints(canvas[i])
        ELSE panicked = "none" /\ canvas = <<>>

\* drawGlyph has aborted on an invalid shape at a point of the area.
C6_Witness ==
    /\ op = "drawGlyph" /\ invalidShape /\ contains(da, pt)
    /\ panicked = "Invalid GlyphShape"


----------------------------------------------------------------------------
(* Properties of the axes *)

majors(a) == { i \in 1..Len(a.Ticks) : ~minor(a.Ticks[i]) }

\* The major ticks of the greatest Value.
greatestMajors(a) ==
    { i \in majors(a) : \A j \in majors(a) : LLe(a.Ticks[j].Value, a.Ticks[i].Value) }

\* The one box the axis is to return for the major tick t.
boxOf(a, t) ==
    IF a.Kind = "horizontal"
    THEN LET w == width(a.TickFont, t.Label)
         IN  GlyphBox(norm(a, t.Value), L(0), Pt(LDiv(LNeg(w), L(2)), L(0)), Pt(w, L(0)))
    ELSE LET h == height(a.TickFont, t.Label)
         IN  GlyphBox(L(0), norm(a, t.Value), Pt(L(0), LDiv(LNeg(h), L(2))), Pt(L(0), h))

\* C11: glyphBoxes returns the empty list when the Marker's ticks hold no
\* major tick, and otherwise exactly one box, anchored at norm(v) for the
\* greatest Value v among the major ticks, whose footprint is min = -w/2 and
\* size = w for the width w (horizontal axis) or height (vertical axis) of the
\* label of that same tick.
C11_GlyphBoxesExtremalMajor ==
    op = "glyphBoxes" =>
        IF majors(axis) = {} THEN boxes = <<>>
        ELSE /\ Len(boxes) = 1
             /\ \E i \in greatestMajors(axis) : boxes[1] = boxOf(axis, axis.Ticks[i])

\* The path of the last stroke on the canvas: the axis line.
axisLine == canvas[Len(canvas)].arg

\* The inner edge of the margin that size() reserved.
innerEdge ==
    LET low == IF axis.Kind = "horizontal" THEN da.min.y ELSE da.min.x
    IN  LSub(LSub(LAdd(low, extent), LDiv(axis.Width, L(2))), axis.Padding)

\* C12: after size() and draw() on the same axis and drawArea, the axis line
\* that draw stroked lies at da.min.y + size() - Width/2 - Padding for a
\* horizontal axis and at da.min.x + size() - Width/2 - Padding for a vertical
\* axis, along its whole length.
C12_AxisLineAtInnerEdge ==
    (extent # <<>> /\ canvas # <<>>) =>
        \A k \in 1..Len(axisLine) :
            IF axis.Kind = "horizontal" THEN axisLine[k].y = innerEdge
            ELSE axisLine[k].x = innerEdge

=============================================================================
